---- MODULE Spec2Model ----
(***************************************************************************)
(* The layout/grouping engine of the notebook editor (v2Editor/index.tsx): *)
(* the Layout (an ordered sequence of block groups, each an ordered        *)
(* sequence of tabs), the Block Store, the dashboard references, and the   *)
(* editor's handlers that call the operations of @briefer/editor on them.  *)
(* An identifier is a non-zero integer: block identifiers are positive,    *)
(* group identifiers negative; 0 stands for "no identifier" (undefined).   *)
(* Every state of a behaviour is a transaction boundary of the replicated  *)
(* document: what a render or a remote replica can observe.                *)
(***************************************************************************)
EXTENDS Integers, Sequences, FiniteSets, TLC

\* Bounds of the model: how many block and group identifiers exist.
MaxBlocks == 3
MaxGroups == 3
\* At most this many blocks are referenced by dashboards at a time.
MaxDashRefs == 1

BlockIds == 1..MaxBlocks
GroupIds == {0 - i : i \in 1..MaxGroups}
\* Indexes a caller may pass: 0 .. the longest layout's length (past the end of
\* every shorter one).
Indexes == 0..MaxBlocks

\* enum ElementType
Block == "BLOCK"
BlockGroup == "BLOCK_GROUP"
ElementType == {Block, BlockGroup}

\* The block types the add menus are exercised with: one type that is added,
\* the type onAddBlock ignores, and the type whose block offers "use in Python".
AddableTypes == {"SQL", "DASHBOARD_HEADER"}
UploadTypes == {"FILE_UPLOAD"}
Positions == {"before", "after"}
Sides == {"left", "right"}

VARIABLES
  layout,                  \* yDoc.getArray('layout'): Seq of [id, tabs]
  blocks,                  \* yDoc.getMap('blocks'): block id -> payload
  dashboards,              \* block ids some dashboard widget depends on
  removeBlockGroupDialog,  \* useState<RemoveBlockGroupResult | null>: {} or {result}
  removeBlockDialog,       \* useState<RemoveBlockDashboardConflictResult | null>
  pending,                 \* {} or {the untransacted operation between its two writes}
  last,                    \* the handler call of the last step and what it returned
  net                      \* two replicas editing concurrently, and their merge

vars == <<layout, blocks, dashboards, removeBlockGroupDialog, removeBlockDialog,
          pending, last, net>>

Doc == [layout |-> layout, blocks |-> blocks]

----------------------------------------------------------------------------
\* Sequences

Min(a, b) == IF a < b THEN a ELSE b

\* index clamped to [0, n]
Clamp(k, n) == IF k < 0 THEN 0 ELSE IF k > n THEN n ELSE k

\* s without its i-th element (1-based); s itself when i is no position of s
RemoveAt(s, i) ==
  IF i \in 1..Len(s) THEN SubSeq(s, 1, i - 1) \o SubSeq(s, i + 1, Len(s)) ELSE s

\* insert(index, [x]) of an ordered sequence: x gets `index` elements before it
InsertAt(s, index, x) ==
  SubSeq(s, 1, index) \o <<x>> \o SubSeq(s, index + 1, Len(s))

SeqRange(s) == {s[i] : i \in 1..Len(s)}

\* the first position of x in s (1-based), 0 when absent
IndexOf(s, x) ==
  IF \E i \in 1..Len(s) : s[i] = x
  THEN CHOOSE i \in 1..Len(s) : s[i] = x /\ \A j \in 1..(i - 1) : s[j] # x
  ELSE 0

----------------------------------------------------------------------------
\* Read-side queries of the engine

\* position of group g in the layout (1-based), 0 when absent
GroupIndex(l, g) ==
  IF \E i \in 1..Len(l) : l[i].id = g
  THEN CHOOSE i \in 1..Len(l) : l[i].id = g /\ \A j \in 1..(i - 1) : l[j].id # g
  ELSE 0

\* position of the tab of block b in tabs (1-based), 0 when absent
TabIndex(tabs, b) ==
  IF \E i \in 1..Len(tabs) : tabs[i].blockId = b
  THEN CHOOSE i \in 1..Len(tabs) :
         tabs[i].blockId = b /\ \A j \in 1..(i - 1) : tabs[j].blockId # b
  ELSE 0

getBlockGroup(l, g) == IF GroupIndex(l, g) = 0 THEN {} ELSE {l[GroupIndex(l, g)]}

TabIds(tabs) == [i \in 1..Len(tabs) |-> tabs[i].blockId]

\* the block ids of group g's tabs, in order (empty when g is absent)
GroupTabIds(l, g) ==
  IF GroupIndex(l, g) = 0 THEN <<>> ELSE TabIds(l[GroupIndex(l, g)].tabs)

\* position of the group that holds a tab of block b, 0 when none does
GroupIndexOfBlock(l, b) ==
  IF \E i \in 1..Len(l) : TabIndex(l[i].tabs, b) # 0
  THEN CHOOSE i \in 1..Len(l) :
         TabIndex(l[i].tabs, b) # 0 /\ \A j \in 1..(i - 1) : TabIndex(l[j].tabs, b) = 0
  ELSE 0

\* every tab slot of the layout, as <<position of group, position of tab>>
Slots(l) == {<<i, j>> \in (1..Len(l)) \X (1..(MaxBlocks + 1)) : j <= Len(l[i].tabs)}

LayoutBlockIds(l) == {l[s[1]].tabs[s[2]].blockId : s \in Slots(l)}
LayoutGroupIds(l) == {l[i].id : i \in 1..Len(l)}
GroupIdsOf(l) == [i \in 1..Len(l) |-> l[i].id]

----------------------------------------------------------------------------
\* Tabs and the current-tab marker

Tab(b, hidden, current) ==
  [blockId |-> b, isHiddenInPublished |-> hidden, isCurrent |-> current]

\* exactly the tab of block b holds the marker
SetCurrent(tabs, b) ==
  [i \in 1..Len(tabs) |-> [tabs[i] EXCEPT !.isCurrent = (tabs[i].blockId = b)]]

ClearCurrent(tabs) == [i \in 1..Len(tabs) |-> [tabs[i] EXCEPT !.isCurrent = FALSE]]

\* RemoveTab that leaves the group without a current tab when the removed tab
\* was the current one
RemoveTab_KeepsNoCurrent(tabs, b) ==
  IF TabIndex(tabs, b) = 0 THEN tabs ELSE RemoveAt(tabs, TabIndex(tabs, b))

\* tabs without the tab of block b; when that tab held the marker it falls to the
\* tab that was immediately before it, else to the new first tab
RemoveTab(tabs, b) ==
  LET i == TabIndex(tabs, b)
      rest == RemoveAt(tabs, i)
  IN IF i = 0 THEN tabs
     ELSE IF tabs[i].isCurrent /\ Len(rest) > 0
          THEN SetCurrent(rest, rest[IF i > 1 THEN i - 1 ELSE 1].blockId)
          ELSE rest

NewGroup(g, b) == [id |-> g, tabs |-> <<Tab(b, FALSE, TRUE)>>]

\* WithTabs that leaves a group whose last tab was taken in the layout
WithTabs_KeepsEmptyGroup(l, gi, tabs) == [l EXCEPT ![gi].tabs = tabs]

\* the layout with group at position gi given these tabs, and dropped when they
\* are none (a group with zero tabs is deleted)
WithTabs(l, gi, tabs) ==
  IF Len(tabs) = 0 THEN RemoveAt(l, gi) ELSE [l EXCEPT ![gi].tabs = tabs]

----------------------------------------------------------------------------
\* The operations of @briefer/editor. A document d is [layout, blocks]; the
\* identifiers an operation creates (uuids) are passed in: nb a fresh block
\* identifier, ng a fresh group identifier.

\* 4.1 addBlockGroup(layout, blocks, blockSpec, index): blocks.set, then
\* layout.insert of a new single-tab group at index clamped to [0, length]
createBlock(d, blockSpec, nb) ==
  [d EXCEPT !.blocks = [b \in (DOMAIN d.blocks) \cup {nb} |->
                          IF b = nb THEN blockSpec ELSE d.blocks[b]]]

insertBlockGroup(d, nb, index, ng) ==
  [d EXCEPT !.layout = InsertAt(d.layout, Clamp(index, Len(d.layout)), NewGroup(ng, nb))]

addBlockGroup(d, blockSpec, index, nb, ng) ==
  insertBlockGroup(createBlock(d, blockSpec, nb), nb, index, ng)

\* insertGroupedTab that inserts a tab of the anchor block, not of the new block
insertGroupedTab_OfAnchor(d, g, anchorBlockId, position, nb) ==
  LET gi == GroupIndex(d.layout, g)
      ai == IF gi = 0 THEN 0 ELSE TabIndex(d.layout[gi].tabs, anchorBlockId)
      at == IF position = "before" THEN ai - 1 ELSE ai
  IN IF gi = 0 \/ ai = 0 THEN d
     ELSE [d EXCEPT !.layout[gi].tabs =
             InsertAt(ClearCurrent(d.layout[gi].tabs), at, Tab(anchorBlockId, FALSE, TRUE))]

\* the tab of block nb inserted before or after the tab of anchorBlockId in group
\* g, the new tab becoming the current tab; nothing when the anchor is not in g
insertGroupedTab(d, g, anchorBlockId, position, nb) ==
  LET gi == GroupIndex(d.layout, g)
      ai == IF gi = 0 THEN 0 ELSE TabIndex(d.layout[gi].tabs, anchorBlockId)
      at == IF position = "before" THEN ai - 1 ELSE ai
  IN IF gi = 0 \/ ai = 0 THEN d
     ELSE [d EXCEPT !.layout[gi].tabs =
             SetCurrent(InsertAt(d.layout[gi].tabs, at, Tab(nb, FALSE, FALSE)), nb)]

\* 4.1 addGroupedBlock(layout, blocks, groupId, anchorBlockId, blockSpec, position)
addGroupedBlock(d, g, anchorBlockId, blockSpec, position, nb) ==
  LET gi == GroupIndex(d.layout, g)
  IN IF gi = 0 \/ TabIndex(d.layout[gi].tabs, anchorBlockId) = 0 THEN d
     ELSE insertGroupedTab(createBlock(d, blockSpec, nb), g, anchorBlockId, position, nb)

\* the layout write of addBlockGroupAfterBlock: a sibling group after a
\* single-tab group, a tab after the anchor in a multi-tab group
placeAfterBlock(d, afterBlockId, nb, ng) ==
  LET gi == GroupIndexOfBlock(d.layout, afterBlockId)
  IN IF gi = 0 THEN d
     ELSE IF Len(d.layout[gi].tabs) = 1
          THEN insertBlockGroup(d, nb, gi, ng)
          ELSE insertGroupedTab(d, d.layout[gi].id, afterBlockId, "after", nb)

\* 4.1 addBlockGroupAfterBlock(layout, blocks, blockSpec, afterBlockId)
addBlockGroupAfterBlock(d, blockSpec, afterBlockId, nb, ng) ==
  IF GroupIndexOfBlock(d.layout, afterBlockId) = 0 THEN d
  ELSE placeAfterBlock(createBlock(d, blockSpec, nb), afterBlockId, nb, ng)

\* 4.3 updateOrder(layout, groupId, targetIndex): remove, then reinsert at
\* targetIndex read against the sequence after the removal
updateOrder(l, g, targetIndex) ==
  LET gi == GroupIndex(l, g)
      rest == RemoveAt(l, gi)
  IN IF gi = 0 THEN l ELSE InsertAt(rest, Clamp(targetIndex, Len(rest)), l[gi])

\* 4.2 groupBlocks(layout, sourceGroupId, sourceBlockId, targetGroupId)
groupBlocks(l, sg, sb, tg) ==
  LET si == GroupIndex(l, sg)
      ti == GroupIndex(l, tg)
      bi == IF si = 0 THEN 0 ELSE TabIndex(l[si].tabs, sb)
  IN IF sg = tg \/ si = 0 \/ ti = 0 \/ bi = 0 THEN l
     ELSE LET moved == l[si].tabs[bi]
              grown == [l EXCEPT ![ti].tabs = SetCurrent(Append(l[ti].tabs, moved), sb)]
          IN WithTabs(grown, si, RemoveTab(l[si].tabs, sb))

\* 4.2 groupBlockGroups(layout, sourceGroupId, targetGroupId)
groupBlockGroups(l, sg, tg) ==
  LET si == GroupIndex(l, sg)
      ti == GroupIndex(l, tg)
  IN IF sg = tg \/ si = 0 \/ ti = 0 THEN l
     ELSE RemoveAt([l EXCEPT ![ti].tabs = l[ti].tabs \o ClearCurrent(l[si].tabs)], si)

\* 4.2 ungroupTab(layout, sourceGroupId, blockId, targetIndex)
ungroupTab(l, sg, b, targetIndex, ng) ==
  LET si == GroupIndex(l, sg)
      bi == IF si = 0 THEN 0 ELSE TabIndex(l[si].tabs, b)
  IN IF si = 0 \/ bi = 0 THEN l
     ELSE IF Len(l[si].tabs) = 1 THEN updateOrder(l, sg, targetIndex)
     ELSE LET shrunk == [l EXCEPT ![si].tabs = RemoveTab(l[si].tabs, b)]
              alone == [id |-> ng,
                        tabs |-> <<[l[si].tabs[bi] EXCEPT !.isCurrent = TRUE]>>]
          IN InsertAt(shrunk, Clamp(targetIndex, Len(shrunk)), alone)

\* 4.3 reorderTab(layout, sourceGroupId, blockId, targetBlockId, side)
reorderTab(l, sg, b, tb, side) ==
  LET si == GroupIndex(l, sg)
      bi == IF si = 0 THEN 0 ELSE TabIndex(l[si].tabs, b)
      ti == GroupIndexOfBlock(l, tb)
  IN IF si = 0 \/ bi = 0 \/ ti = 0 \/ b = tb THEN l
     ELSE IF ti = si
     THEN LET rest == RemoveAt(l[si].tabs, bi)
              at == TabIndex(rest, tb)
          IN [l EXCEPT ![si].tabs =
                InsertAt(rest, IF side = "left" THEN at - 1 ELSE at, l[si].tabs[bi])]
     ELSE LET at == TabIndex(l[ti].tabs, tb)
              moved == [l[si].tabs[bi] EXCEPT !.isCurrent = FALSE]
              grown == [l EXCEPT ![ti].tabs =
                          InsertAt(l[ti].tabs, IF side = "left" THEN at - 1 ELSE at, moved)]
          IN WithTabs(grown, si, RemoveTab(l[si].tabs, b))

\* 4.6 switchActiveTab(layout, groupId, blockId)
switchActiveTab(l, g, b) ==
  LET gi == GroupIndex(l, g)
  IN IF gi = 0 \/ TabIndex(l[gi].tabs, b) = 0 THEN l
     ELSE [l EXCEPT ![gi].tabs = SetCurrent(l[gi].tabs, b)]

\* 4.6 toggleIsBlockHiddenInPublished(blockGroup, blockId), on the group at gi
toggleIsBlockHiddenInPublished(l, gi, b) ==
  LET bi == TabIndex(l[gi].tabs, b)
  IN IF bi = 0 THEN l
     ELSE [l EXCEPT ![gi].tabs[bi].isHiddenInPublished = ~l[gi].tabs[bi].isHiddenInPublished]

\* 4.6 getCurrentTabId(layout, groupId, blocks, isPublishedView); 0 when none
getCurrentTabId(l, g, isApp) ==
  LET gi == GroupIndex(l, g)
      tabs == l[gi].tabs
      shown == {i \in 1..Len(tabs) : ~tabs[i].isHiddenInPublished}
      marked == {i \in 1..Len(tabs) : tabs[i].isCurrent}
  IN IF gi = 0 THEN 0
     ELSE IF isApp /\ shown # {}
          THEN tabs[CHOOSE i \in shown : \A j \in shown : i <= j].blockId
          ELSE IF marked # {}
               THEN tabs[CHOOSE i \in marked : \A j \in marked : i <= j].blockId
               ELSE 0

----------------------------------------------------------------------------
\* 4.4 Removal with conflict detection, 4.5 duplication, drop pre-checks

\* Conflict Checker: findConflicts(blockIds), read-only
findConflicts(dash, blockIds) == dash \cap blockIds

Success == [tag |-> "success", blockGroupId |-> 0, blockId |-> 0, conflicts |-> {}]
DashboardConflict(g, b, conflicts) ==
  [tag |-> "dashboard-conflict", blockGroupId |-> g, blockId |-> b, conflicts |-> conflicts]

WithoutBlocks(bl, gone) == [b \in (DOMAIN bl) \ gone |-> bl[b]]

\* removeBlockGroup that looks for dashboard conflicts even when forced
removeBlockGroup_IgnoresForce(d, dash, g, force) ==
  LET gi == GroupIndex(d.layout, g)
      ids == SeqRange(GroupTabIds(d.layout, g))
      conflicts == findConflicts(dash, ids)
  IN IF gi = 0 THEN [doc |-> d, result |-> Success]
     ELSE IF conflicts # {}
          THEN [doc |-> d, result |-> DashboardConflict(g, 0, conflicts)]
          ELSE [doc |-> [layout |-> RemoveAt(d.layout, gi),
                         blocks |-> WithoutBlocks(d.blocks, ids)],
                result |-> Success]

\* removeBlockGroup(yDoc, groupId, force): [doc, result]
removeBlockGroup(d, dash, g, force) ==
  LET gi == GroupIndex(d.layout, g)
      ids == SeqRange(GroupTabIds(d.layout, g))
      conflicts == findConflicts(dash, ids)
  IN IF gi = 0 THEN [doc |-> d, result |-> Success]
     ELSE IF ~force /\ conflicts # {}
          THEN [doc |-> d, result |-> DashboardConflict(g, 0, conflicts)]
          ELSE [doc |-> [layout |-> RemoveAt(d.layout, gi),
                         blocks |-> WithoutBlocks(d.blocks, ids)],
                result |-> Success]

\* removeBlock(yDoc, groupId, blockId, force): [doc, result]
removeBlock(d, dash, g, b, force) ==
  LET gi == GroupIndex(d.layout, g)
      bi == IF gi = 0 THEN 0 ELSE TabIndex(d.layout[gi].tabs, b)
      conflicts == findConflicts(dash, {b})
  IN IF gi = 0 \/ bi = 0 THEN [doc |-> d, result |-> Success]
     ELSE IF ~force /\ conflicts # {}
          THEN [doc |-> d, result |-> DashboardConflict(g, b, conflicts)]
          ELSE [doc |-> [layout |-> WithTabs(d.layout, gi, RemoveTab(d.layout[gi].tabs, b)),
                         blocks |-> WithoutBlocks(d.blocks, {b})],
                result |-> Success]

\* 4.5 duplicateBlockGroup(layout, blocks, groupId); fb[i] is the fresh identifier
\* of the copy of the i-th tab's block
duplicateBlockGroup(d, g, fb, ng) ==
  LET gi == GroupIndex(d.layout, g)
      tabs == d.layout[gi].tabs
      copy == [id |-> ng, tabs |-> [i \in 1..Len(tabs) |-> [tabs[i] EXCEPT !.blockId = fb[i]]]]
      new == {fb[i] : i \in 1..Len(tabs)}
  IN IF gi = 0 THEN d
     ELSE [layout |-> InsertAt(d.layout, gi, copy),
           blocks |-> [b \in (DOMAIN d.blocks) \cup new |->
                         IF b \in new
                         THEN d.blocks[tabs[CHOOSE i \in 1..Len(tabs) : fb[i] = b].blockId]
                         ELSE d.blocks[b]]]

\* 4.5 duplicateTab(layout, blocks, groupId, blockId)
duplicateTab(d, g, b, nb) ==
  LET gi == GroupIndex(d.layout, g)
      bi == IF gi = 0 THEN 0 ELSE TabIndex(d.layout[gi].tabs, b)
      tabs == d.layout[gi].tabs
  IN IF gi = 0 \/ bi = 0 \/ b \notin DOMAIN d.blocks THEN d
     ELSE [layout |-> [d.layout EXCEPT ![gi].tabs =
                         InsertAt(tabs, bi, [tabs[bi] EXCEPT !.blockId = nb, !.isCurrent = FALSE])],
           blocks |-> createBlock(d, d.blocks[b], nb).blocks]

\* 4.2 checkCanDropBlockGroup(layout, groupId, index): the drop changes the order
checkCanDropBlockGroup(l, g, index) ==
  GroupIndex(l, g) # 0 /\ updateOrder(l, g, index) # l

\* 4.2 checkCanDropBlock(layout, groupId, index): a tab of a multi-tab group can
\* always be pulled out; the tab of a single-tab group moves its group
checkCanDropBlock(l, g, index) ==
  LET gi == GroupIndex(l, g)
  IN gi # 0 /\ (Len(l[gi].tabs) > 1 \/ checkCanDropBlockGroup(l, g, index))

----------------------------------------------------------------------------
\* The editor's handlers (V2Editor, DraggableTabbedBlock). Each is the function
\* of the document its callback computes; the actions below apply them.

\* the construction parameters the handlers pass: the type, and for SQL whether
\* the data source is an uploaded file
BlockSpec(type, isFileDataSource) == [type |-> type, isFileDataSource |-> isFileDataSource]

\* V2Editor.onAddBlock(type, index), inside yDoc.transact
onAddBlock(d, type, index, nb, ng) ==
  CASE type = "SQL" -> addBlockGroup(d, BlockSpec(type, FALSE), index, nb, ng)
    [] type = "VISUALIZATION" -> addBlockGroup(d, BlockSpec(type, FALSE), index, nb, ng)
    [] type = "DASHBOARD_HEADER" -> d
    [] OTHER -> addBlockGroup(d, BlockSpec(type, FALSE), index, nb, ng)

\* V2Editor.onAddGroupedBlock(type, blockGroupId, blockId, position), inside yDoc.transact
onAddGroupedBlock(d, type, blockGroupId, blockId, position, nb) ==
  CASE type = "SQL" ->
         addGroupedBlock(d, blockGroupId, blockId, BlockSpec(type, FALSE), position, nb)
    [] type = "VISUALIZATION" ->
         addGroupedBlock(d, blockGroupId, blockId, BlockSpec(type, FALSE), position, nb)
    [] type = "DASHBOARD_HEADER" -> d
    [] OTHER ->
         addGroupedBlock(d, blockGroupId, blockId, BlockSpec(type, FALSE), position, nb)

\* onDropItem with the two element types taken for each other
onDropItem_TypesSwapped(l, blockGroupId, blockId, targetIndex, type, ng) ==
  IF type = Block THEN updateOrder(l, blockGroupId, targetIndex)
  ELSE IF type = BlockGroup THEN ungroupTab(l, blockGroupId, blockId, targetIndex, ng)
  ELSE l

\* onDropItem that drops a tab one position further down than the dropzone's
onDropItem_TabOneFurther(l, blockGroupId, blockId, targetIndex, type, ng) ==
  IF type = BlockGroup THEN updateOrder(l, blockGroupId, targetIndex)
  ELSE IF type = Block THEN ungroupTab(l, blockGroupId, blockId, targetIndex + 1, ng)
  ELSE l

\* onDropItem that handles dropped groups only
onDropItem_GroupsOnly(l, blockGroupId, blockId, targetIndex, type, ng) ==
  IF type = BlockGroup THEN updateOrder(l, blockGroupId, targetIndex) ELSE l

\* V2Editor.onDropItem(blockGroupId, blockId, targetIndex, type), inside yDoc.transact
onDropItem(l, blockGroupId, blockId, targetIndex, type, ng) ==
  IF type = BlockGroup THEN updateOrder(l, blockGroupId, targetIndex)
  ELSE IF type = Block THEN ungroupTab(l, blockGroupId, blockId, targetIndex, ng)
  ELSE l

\* onGroup that hands groupBlockGroups the target as the source
onGroup_SourceTargetSwapped(l, blockGroupId, blockId, targetId, type) ==
  IF type = Block THEN groupBlocks(l, blockGroupId, blockId, targetId)
  ELSE IF type = BlockGroup THEN groupBlockGroups(l, targetId, blockGroupId)
  ELSE l

\* onGroup that moves the whole group when a single tab is dropped
onGroup_TabAsGroup(l, blockGroupId, blockId, targetId, type) ==
  IF type = Block THEN groupBlockGroups(l, blockGroupId, targetId)
  ELSE IF type = BlockGroup THEN groupBlockGroups(l, blockGroupId, targetId)
  ELSE l

\* V2Editor.onGroup(blockGroupId, blockId, targetId, type), inside yDoc.transact
onGroup(l, blockGroupId, blockId, targetId, type) ==
  IF type = Block THEN groupBlocks(l, blockGroupId, blockId, targetId)
  ELSE IF type = BlockGroup THEN groupBlockGroups(l, blockGroupId, targetId)
  ELSE l

\* V2Editor.onCheckCanDrop(blockGroupId, index, type)
onCheckCanDrop(l, blockGroupId, index, type) ==
  IF type = Block THEN checkCanDropBlock(l, blockGroupId, index)
  ELSE IF type = BlockGroup THEN checkCanDropBlockGroup(l, blockGroupId, index)
  ELSE FALSE

\* onRemoveBlockGroup that forces the removal
onRemoveBlockGroup_Forced(d, dash, dialog, blockId) ==
  LET r == removeBlockGroup(d, dash, blockId, TRUE)
  IN [doc |-> r.doc, result |-> r.result,
      dialog |-> IF r.result.tag # "success" THEN {r.result} ELSE dialog]

\* V2Editor.onRemoveBlockGroup(blockId): [doc, result, dialog]
onRemoveBlockGroup(d, dash, dialog, blockId) ==
  LET r == removeBlockGroup(d, dash, blockId, FALSE)
  IN [doc |-> r.doc, result |-> r.result,
      dialog |-> IF r.result.tag # "success" THEN {r.result} ELSE dialog]

\* onRemoveBlock that forces the removal
onRemoveBlock_Forced(d, dash, dialog, blockGroupId, blockId) ==
  LET r == removeBlock(d, dash, blockGroupId, blockId, TRUE)
  IN [doc |-> r.doc, result |-> r.result,
      dialog |-> IF r.result.tag # "success" THEN {r.result} ELSE dialog]

\* V2Editor.onRemoveBlock(blockGroupId, blockId): [doc, result, dialog]
onRemoveBlock(d, dash, dialog, blockGroupId, blockId) ==
  LET r == removeBlock(d, dash, blockGroupId, blockId, FALSE)
  IN [doc |-> r.doc, result |-> r.result,
      dialog |-> IF r.result.tag # "success" THEN {r.result} ELSE dialog]

\* currentBlockId that asks for the current tab of the editing view in every view
currentBlockId_OfEditingView(l, id, isApp) == getCurrentTabId(l, id, FALSE)

\* DraggableTabbedBlock.currentBlockId
currentBlockId(l, id, isApp) == getCurrentTabId(l, id, isApp)

\* onDeleteCurrentTab that takes the first tab of the row for the current one
onDeleteCurrentTab_OfFirstTab(d, dash, dialog, id, isApp) ==
  IF Len(GroupTabIds(d.layout, id)) = 0
  THEN [doc |-> d, result |-> Success, dialog |-> dialog]
  ELSE onRemoveBlock(d, dash, dialog, id, GroupTabIds(d.layout, id)[1])

\* DraggableTabbedBlock.onDeleteCurrentTab of the row of group id
onDeleteCurrentTab(d, dash, dialog, id, isApp) ==
  IF currentBlockId(d.layout, id, isApp) = 0
  THEN [doc |-> d, result |-> Success, dialog |-> dialog]
  ELSE onRemoveBlock(d, dash, dialog, id, currentBlockId(d.layout, id, isApp))

\* onDuplicateBlockGroup that duplicates the current tab in place, as
\* onDuplicateBlock does
onDuplicateBlockGroup_OfTab(d, blockGroupId, fb, ng) ==
  duplicateTab(d, blockGroupId, currentBlockId(d.layout, blockGroupId, FALSE), fb[1])

\* V2Editor.onDuplicateBlockGroup(blockGroupId), inside yDoc.transact
onDuplicateBlockGroup(d, blockGroupId, fb, ng) == duplicateBlockGroup(d, blockGroupId, fb, ng)

\* V2Editor.onDuplicateBlock(blockGroupId, blockId), inside yDoc.transact
onDuplicateBlock(d, blockGroupId, blockId, nb) == duplicateTab(d, blockGroupId, blockId, nb)

\* DraggableTabbedBlock.onSwitchActiveTab(tabId) of the row of group id
onSwitchActiveTab(l, id, tabId) == switchActiveTab(l, id, tabId)

\* onReorderTab that takes the target tab for the dragged tab
onReorderTab_TargetAsDragged(l, blockGroupId, blockId, targetId, side) ==
  reorderTab(l, blockGroupId, targetId, blockId, side)

\* DraggableTabbedBlock.onReorderTab(blockGroupId, blockId, targetId, side)
onReorderTab(l, blockGroupId, blockId, targetId, side) ==
  reorderTab(l, blockGroupId, blockId, targetId, side)

\* onToggleIsBlockHiddenInPublished that, finding no group of that id, looks
\* for the block in the other groups
onToggleIsBlockHiddenInPublished_AnyGroup(l, id, blockId) ==
  IF GroupIndex(l, id) # 0 THEN toggleIsBlockHiddenInPublished(l, GroupIndex(l, id), blockId)
  ELSE IF GroupIndexOfBlock(l, blockId) # 0
       THEN toggleIsBlockHiddenInPublished(l, GroupIndexOfBlock(l, blockId), blockId)
       ELSE l

\* DraggableTabbedBlock.onToggleIsBlockHiddenInPublished(blockId) of the row of group id
onToggleIsBlockHiddenInPublished(l, id, blockId) ==
  IF GroupIndex(l, id) = 0 THEN l
  ELSE toggleIsBlockHiddenInPublished(l, GroupIndex(l, id), blockId)

\* DraggableTabbedBlock.onHideAllTabs of the row of group id, inside yDoc.transact
onHideAllTabs(l, id) ==
  LET gi == GroupIndex(l, id)
  IN IF gi = 0 THEN l
     ELSE [l EXCEPT ![gi].tabs =
             [i \in 1..Len(l[gi].tabs) |-> [l[gi].tabs[i] EXCEPT !.isHiddenInPublished = TRUE]]]

----------------------------------------------------------------------------
\* Fresh identifiers (uuidv4): an identifier nothing in the state refers to

DialogBlockIds ==
  UNION {r.conflicts \cup {r.blockId} : r \in removeBlockGroupDialog \cup removeBlockDialog}
DialogGroupIds == {r.blockGroupId : r \in removeBlockGroupDialog \cup removeBlockDialog}

FreshBlocks ==
  BlockIds \ (DOMAIN blocks \cup LayoutBlockIds(layout) \cup dashboards \cup DialogBlockIds)
FreshGroups == GroupIds \ (LayoutGroupIds(layout) \cup DialogGroupIds)

\* the fresh block identifiers in increasing order
FreshBlockSeq ==
  CHOOSE f \in [1..Cardinality(FreshBlocks) -> FreshBlocks] :
    \A i, j \in 1..Cardinality(FreshBlocks) : i < j => f[i] < f[j]

NextBlock == IF FreshBlocks = {} THEN 0 ELSE FreshBlockSeq[1]
NextGroup == IF FreshGroups = {} THEN 0 ELSE CHOOSE g \in FreshGroups : \A h \in FreshGroups : g >= h

----------------------------------------------------------------------------
\* The state machine of one replica

NoNet == [phase |-> "off"]

Call(h, x, tag) == [h |-> h, x |-> x, tag |-> tag]

Init ==
  /\ layout = <<>>
  /\ blocks = <<>>
  /\ dashboards = {}
  /\ removeBlockGroupDialog = {}
  /\ removeBlockDialog = {}
  /\ pending = {}
  /\ last = Call("init", "", "")
  /\ net = NoNet

Idle == pending = {}

\* A handler's transaction commits document d. `last` names the last call that
\* changed the state; a call that changes nothing leaves no trace.
Commit(d, h, x) ==
  IF d = Doc THEN UNCHANGED vars
  ELSE /\ layout' = d.layout
       /\ blocks' = d.blocks
       /\ last' = Call(h, x, "changed")
       /\ UNCHANGED <<dashboards, removeBlockGroupDialog, removeBlockDialog, pending, net>>

CommitLayout(l, h, x) == Commit([layout |-> l, blocks |-> blocks], h, x)

AddBlock(type, index) ==
  /\ Idle
  /\ type = "DASHBOARD_HEADER" \/ (NextBlock # 0 /\ NextGroup # 0)
  /\ Commit(onAddBlock(Doc, type, index, NextBlock, NextGroup), "onAddBlock", type)

AddGroupedBlock(type, g, b, position) ==
  /\ Idle
  /\ type = "DASHBOARD_HEADER" \/ NextBlock # 0
  /\ Commit(onAddGroupedBlock(Doc, type, g, b, position, NextBlock), "onAddGroupedBlock", type)

\* Dropzone drop: `last` tells a drop that made a new group from one that moved one
DropItem(g, b, targetIndex, type) ==
  /\ Idle
  /\ type = BlockGroup \/ NextGroup # 0
  /\ LET l == onDropItem(layout, g, b, targetIndex, type, NextGroup)
     IN IF l = layout THEN UNCHANGED vars
        ELSE /\ layout' = l
             /\ last' = Call("onDropItem", type,
                             IF Len(l) > Len(layout) THEN "ungrouped" ELSE "changed")
             /\ UNCHANGED <<blocks, dashboards, removeBlockGroupDialog, removeBlockDialog,
                            pending, net>>

Group(g, b, targetId, type) ==
  /\ Idle
  /\ CommitLayout(onGroup(layout, g, b, targetId, type), "onGroup", type)

ReorderTab(g, b, targetId, side) ==
  /\ Idle
  /\ CommitLayout(onReorderTab(layout, g, b, targetId, side), "onReorderTab", side)

SwitchActiveTab(g, b) ==
  /\ Idle
  /\ CommitLayout(onSwitchActiveTab(layout, g, b), "onSwitchActiveTab", "")

ToggleIsBlockHiddenInPublished(g, b) ==
  /\ Idle
  /\ CommitLayout(onToggleIsBlockHiddenInPublished(layout, g, b),
                  "onToggleIsBlockHiddenInPublished", "")

HideAllTabs(g) ==
  /\ Idle
  /\ CommitLayout(onHideAllTabs(layout, g), "onHideAllTabs", "")

DuplicateBlockGroup(g) ==
  /\ Idle
  /\ NextGroup # 0
  /\ Cardinality(FreshBlocks) >= Len(GroupTabIds(layout, g))
  /\ Commit(onDuplicateBlockGroup(Doc, g, FreshBlockSeq, NextGroup), "onDuplicateBlockGroup", "")

DuplicateBlock(g, b) ==
  /\ Idle
  /\ NextBlock # 0
  /\ Commit(onDuplicateBlock(Doc, g, b, NextBlock), "onDuplicateBlock", "")

\* a removal's outcome r = [doc, result], and the dialogs' states after it
CommitRemoval(r, h, groupDialog, blockDialog) ==
  IF r.doc = Doc /\ groupDialog = removeBlockGroupDialog /\ blockDialog = removeBlockDialog
  THEN UNCHANGED vars
  ELSE /\ layout' = r.doc.layout
       /\ blocks' = r.doc.blocks
       /\ removeBlockGroupDialog' = groupDialog
       /\ removeBlockDialog' = blockDialog
       /\ last' = Call(h, IF r.doc = Doc THEN "unchanged" ELSE "changed", r.result.tag)
       /\ UNCHANGED <<dashboards, pending, net>>

RemoveBlockGroup(g) ==
  /\ Idle
  /\ LET r == onRemoveBlockGroup(Doc, dashboards, removeBlockGroupDialog, g)
     IN CommitRemoval(r, "onRemoveBlockGroup", r.dialog, removeBlockDialog)

RemoveBlock(g, b) ==
  /\ Idle
  /\ LET r == onRemoveBlock(Doc, dashboards, removeBlockDialog, g, b)
     IN CommitRemoval(r, "onRemoveBlock", removeBlockGroupDialog, r.dialog)

DeleteCurrentTab(g) ==
  /\ Idle
  /\ LET r == onDeleteCurrentTab(Doc, dashboards, removeBlockDialog, g, FALSE)
     IN CommitRemoval(r, "onDeleteCurrentTab", removeBlockGroupDialog, r.dialog)

\* RemoveBlockDashboardConflictDialog: the user confirms, and the dialog calls
\* removeBlockGroup again with force = true, then closes
ConfirmRemoveBlockGroup ==
  /\ Idle
  /\ \E c \in removeBlockGroupDialog :
       CommitRemoval(removeBlockGroup(Doc, dashboards, c.blockGroupId, TRUE),
                     "confirmRemoveBlockGroup", {}, removeBlockDialog)

\* RemoveTabDashboardConflictDialog: confirm calls removeBlock with force = true
ConfirmRemoveBlock ==
  /\ Idle
  /\ \E c \in removeBlockDialog :
       CommitRemoval(removeBlock(Doc, dashboards, c.blockGroupId, c.blockId, TRUE),
                     "confirmRemoveBlock", removeBlockGroupDialog, {})

\* onClose={() => setRemoveBlockGroupDialog(null)}
CloseRemoveBlockGroupDialog ==
  /\ Idle
  /\ removeBlockGroupDialog # {}
  /\ removeBlockGroupDialog' = {}
  /\ last' = Call("closeRemoveBlockGroupDialog", "", "")
  /\ UNCHANGED <<layout, blocks, dashboards, removeBlockDialog, pending, net>>

\* onClose={() => setRemoveBlockDialog(null)}
CloseRemoveBlockDialog ==
  /\ Idle
  /\ removeBlockDialog # {}
  /\ removeBlockDialog' = {}
  /\ last' = Call("closeRemoveBlockDialog", "", "")
  /\ UNCHANGED <<layout, blocks, dashboards, removeBlockGroupDialog, pending, net>>

\* DraggableTabbedBlock.onFileUploadBlockPythonUsage(block, filename, type):
\* addBlockGroupAfterBlock is called outside any transaction, so its write to
\* the Block Store and its write to the Layout are two transactions.
FileUploadUsageBegin(b) ==
  /\ Idle
  /\ b \in DOMAIN blocks /\ blocks[b].type = "FILE_UPLOAD"
  /\ GroupIndexOfBlock(layout, b) # 0
  /\ NextBlock # 0 /\ NextGroup # 0
  /\ blocks' = createBlock(Doc, BlockSpec("PYTHON", FALSE), NextBlock).blocks
  /\ pending' = {[blockId |-> NextBlock, afterBlockId |-> b, blockGroupId |-> NextGroup]}
  /\ last' = Call("onFileUploadBlockPythonUsage", "blocks.set", "changed")
  /\ UNCHANGED <<layout, dashboards, removeBlockGroupDialog, removeBlockDialog, net>>

FileUploadUsageEnd ==
  /\ \E p \in pending :
       layout' = placeAfterBlock(Doc, p.afterBlockId, p.blockId, p.blockGroupId).layout
  /\ pending' = {}
  /\ last' = Call("onFileUploadBlockPythonUsage", "layout.insert", "changed")
  /\ UNCHANGED <<blocks, dashboards, removeBlockGroupDialog, removeBlockDialog, net>>

\* The dashboards (an external collaborator) start or stop depending on a block.
DashboardAdd(b) ==
  /\ Idle
  /\ b \in DOMAIN blocks
  /\ b \notin dashboards
  /\ Cardinality(dashboards) < MaxDashRefs
  /\ dashboards' = dashboards \cup {b}
  /\ last' = Call("dashboard", "add", "")
  /\ UNCHANGED <<layout, blocks, removeBlockGroupDialog, removeBlockDialog, pending, net>>

DashboardRemove(b) ==
  /\ Idle
  /\ b \in dashboards
  /\ dashboards' = dashboards \ {b}
  /\ last' = Call("dashboard", "remove", "")
  /\ UNCHANGED <<layout, blocks, removeBlockGroupDialog, removeBlockDialog, pending, net>>

\* The structural handlers of the editor. Nothing here adds a dashboard
\* reference, so every removal succeeds at once.
Next ==
  \/ \E type \in AddableTypes, index \in Indexes : AddBlock(type, index)
  \/ \E type \in AddableTypes, g \in GroupIds, b \in BlockIds, position \in Positions :
       AddGroupedBlock(type, g, b, position)
  \/ \E g \in GroupIds, index \in Indexes : DropItem(g, 0, index, BlockGroup)
  \/ \E g \in GroupIds, b \in BlockIds, index \in Indexes : DropItem(g, b, index, Block)
  \/ \E g \in GroupIds, t \in GroupIds : Group(g, 0, t, BlockGroup)
  \/ \E g \in GroupIds, b \in BlockIds, t \in GroupIds : Group(g, b, t, Block)
  \/ \E g \in GroupIds, b \in BlockIds, t \in BlockIds, side \in Sides : ReorderTab(g, b, t, side)
  \/ \E g \in GroupIds, b \in BlockIds : SwitchActiveTab(g, b)
  \/ \E g \in GroupIds, b \in BlockIds : ToggleIsBlockHiddenInPublished(g, b)
  \/ \E g \in GroupIds : HideAllTabs(g)
  \/ \E g \in GroupIds : DuplicateBlockGroup(g)
  \/ \E g \in GroupIds, b \in BlockIds : DuplicateBlock(g, b)
  \/ \E g \in GroupIds : RemoveBlockGroup(g)
  \/ \E g \in GroupIds, b \in BlockIds : RemoveBlock(g, b)
  \/ \E g \in GroupIds : DeleteCurrentTab(g)

Spec == Init /\ [][Next]_vars

\* Removal against dashboards: the handlers that add and remove, the two
\* conflict dialogs, and the dashboards' own changes.
NextRemoval ==
  \/ \E index \in Indexes : AddBlock("SQL", index)
  \/ \E g \in GroupIds, b \in BlockIds, position \in Positions :
       AddGroupedBlock("SQL", g, b, position)
  \/ \E g \in GroupIds : RemoveBlockGroup(g)
  \/ \E g \in GroupIds, b \in BlockIds : RemoveBlock(g, b)
  \/ \E g \in GroupIds : DeleteCurrentTab(g)
  \/ ConfirmRemoveBlockGroup
  \/ CloseRemoveBlockGroupDialog
  \/ ConfirmRemoveBlock
  \/ CloseRemoveBlockDialog
  \/ \E b \in BlockIds : DashboardAdd(b)
  \/ \E b \in BlockIds : DashboardRemove(b)

SpecRemoval == Init /\ [][NextRemoval]_vars

\* The file-upload block's "use in Python", among the handlers that build and
\* take apart the groups it is used in.
NextUpload ==
  \/ \E type \in UploadTypes, index \in Indexes : AddBlock(type, index)
  \/ \E g \in GroupIds, t \in GroupIds : Group(g, 0, t, BlockGroup)
  \/ \E g \in GroupIds, b \in BlockIds : SwitchActiveTab(g, b)
  \/ \E g \in GroupIds, b \in BlockIds : RemoveBlock(g, b)
  \/ \E b \in BlockIds : FileUploadUsageBegin(b)
  \/ FileUploadUsageEnd

SpecUpload == Init /\ [][NextUpload]_vars

----------------------------------------------------------------------------
\* Structural invariants of the layout

\* the number of tabs of group gi that hold the current marker
CurrentCount(l, gi) == Cardinality({j \in 1..Len(l[gi].tabs) : l[gi].tabs[j].isCurrent})

SomeGroupHasTabs(n) == \E i \in 1..Len(layout) : Len(layout[i].tabs) >= n

\* C1: after every call of the add and remove handlers (and of every other
\* structural handler), no block identifier is in two tab slots of the layout.
C1_NoDuplicateMembership ==
  \A s, t \in Slots(layout) :
    s # t => layout[s[1]].tabs[s[2]].blockId # layout[t[1]].tabs[t[2]].blockId

\* C1's case: tabs were added to a group next to others and one was then
\* removed, the group keeping two
C1_Witness ==
  /\ last.h = "onRemoveBlock" /\ last.x = "changed"
  /\ SomeGroupHasTabs(2)

\* C2: every group that has a tab has exactly one tab marked current.
C2_ExactlyOneCurrent ==
  \A i \in 1..Len(layout) : Len(layout[i].tabs) > 0 => CurrentCount(layout, i) = 1

\* C2's case: the current tab of a group of three was deleted, and the marker
\* went to one of the two tabs left
C2_Witness ==
  /\ last.h = "onDeleteCurrentTab" /\ last.x = "changed"
  /\ SomeGroupHasTabs(2)

\* C3: the layout holds no group with zero tabs.
C3_NoEmptyGroup == \A i \in 1..Len(layout) : Len(layout[i].tabs) > 0

\* C3's case: the only tab of a group was moved into the other group, and the
\* group it left is gone
C3_Witness ==
  /\ last.h = "onGroup" /\ last.x = Block /\ last.tag = "changed"
  /\ Len(layout) = 1
  /\ Len(layout[1].tabs) = MaxBlocks

\* C5: at no transaction boundary is a logical operation half applied: no
\* operation is between its writes, and every block of the Block Store is in
\* a tab of the layout.
C5_NoHalfAppliedOperation ==
  /\ pending = {}
  /\ \A b \in DOMAIN blocks : b \in LayoutBlockIds(layout)

----------------------------------------------------------------------------
\* Removal against dashboards. In every reachable state, whatever the handler
\* is called with, its outcome is as claimed.

GroupBlockSet(l, g) == SeqRange(GroupTabIds(l, g))

\* C6: the remove-group handler (force = false), on a group one of whose blocks
\* a dashboard references, leaves the Layout and the Block Store as they were,
\* gets "dashboard-conflict" with the conflicting references, and only records
\* that result for the confirmation dialog.
C6_ConflictMutatesNothing ==
  \A g \in GroupIds :
    LET conflicts == findConflicts(dashboards, GroupBlockSet(layout, g))
        r == onRemoveBlockGroup(Doc, dashboards, removeBlockGroupDialog, g)
    IN conflicts # {}
         => /\ r.doc = Doc
            /\ r.result = DashboardConflict(g, 0, conflicts)
            /\ r.dialog = {r.result}

\* C6's case: the handler has just been refused on a group of two tabs
C6_Witness ==
  /\ last.h = "onRemoveBlockGroup" /\ last.tag = "dashboard-conflict"
  /\ \E c \in removeBlockGroupDialog :
       /\ Len(GroupTabIds(layout, c.blockGroupId)) >= 2
       /\ c.conflicts # {}

\* the document without group g and without its blocks, the other groups and
\* blocks as they were
GroupRemoved(d, g, after) ==
  /\ after.layout = RemoveAt(d.layout, GroupIndex(d.layout, g))
  /\ GroupIndex(after.layout, g) = 0
  /\ DOMAIN after.blocks = (DOMAIN d.blocks) \ GroupBlockSet(d.layout, g)

\* C7: removeBlockGroup with force = true, on a group of the layout, removes
\* the group and returns "success" whatever the dashboards reference; with
\* force = false it does the same when no dashboard references a block of it.
C7_ForcedOrFreeRemovalRemoves ==
  \A g \in LayoutGroupIds(layout) :
    LET forced == removeBlockGroup(Doc, dashboards, g, TRUE)
        free == onRemoveBlockGroup(Doc, dashboards, removeBlockGroupDialog, g)
    IN /\ forced.result.tag = "success"
       /\ GroupRemoved(Doc, g, forced.doc)
       /\ findConflicts(dashboards, GroupBlockSet(layout, g)) = {}
            => /\ free.result.tag = "success"
               /\ GroupRemoved(Doc, g, free.doc)
               /\ free.dialog = removeBlockGroupDialog

\* C7's case: a forced removal has removed a group a dashboard still references
C7_Witness ==
  /\ last.h = "confirmRemoveBlockGroup" /\ last.x = "changed" /\ last.tag = "success"
  /\ dashboards \ (DOMAIN blocks) # {}

\* the document without the tab of block b of group g: that tab only, and the
\* group with it when it was the group's last tab
TabRemoved(d, g, b, after) ==
  /\ DOMAIN after.blocks = (DOMAIN d.blocks) \ {b}
  /\ LayoutBlockIds(after.layout) = LayoutBlockIds(d.layout) \ {b}
  /\ IF Len(GroupTabIds(d.layout, g)) = 1
     THEN /\ GroupIndex(after.layout, g) = 0
          /\ GroupIdsOf(after.layout) = GroupIdsOf(RemoveAt(d.layout, GroupIndex(d.layout, g)))
     ELSE /\ GroupIdsOf(after.layout) = GroupIdsOf(d.layout)
          /\ GroupTabIds(after.layout, g) =
               RemoveAt(GroupTabIds(d.layout, g), IndexOf(GroupTabIds(d.layout, g), b))
  /\ \A h \in LayoutGroupIds(d.layout) \ {g} :
       GroupTabIds(after.layout, h) = GroupTabIds(d.layout, h)

\* C8: the remove-tab handler (force = false) on a tab whose block a dashboard
\* references mutates nothing and gets "dashboard-conflict"; otherwise (no
\* reference, or force = true) that tab only is removed, and the group with it
\* when it was the last tab.
C8_RemoveBlockTwoPhase ==
  \A g \in LayoutGroupIds(layout) : \A b \in GroupBlockSet(layout, g) :
    LET free == onRemoveBlock(Doc, dashboards, removeBlockDialog, g, b)
        forced == removeBlock(Doc, dashboards, g, b, TRUE)
    IN /\ IF b \in dashboards
          THEN /\ free.doc = Doc
               /\ free.result = DashboardConflict(g, b, {b})
               /\ free.dialog = {free.result}
          ELSE /\ free.result.tag = "success"
               /\ TabRemoved(Doc, g, b, free.doc)
       /\ forced.result.tag = "success"
       /\ TabRemoved(Doc, g, b, forced.doc)

\* C8's cases: a refused removal of a tab, and the removal of a group's last tab
C8_Witness ==
  \/ /\ last.h = "onRemoveBlock" /\ last.tag = "dashboard-conflict"
     /\ removeBlockDialog # {}
     /\ SomeGroupHasTabs(2)
  \/ /\ last.h = "onRemoveBlock" /\ last.x = "changed"
     /\ Len(layout) = 1 /\ dashboards # {}

----------------------------------------------------------------------------
\* Reordering and merging groups

\* C9: dropping a group on a dropzone (updateOrder) puts it at targetIndex of
\* the sequence without it, keeps the order of the others, and keeps the group
\* as it was.
C9_UpdateOrderMoves ==
  \A g \in LayoutGroupIds(layout), index \in Indexes :
    LET rest == RemoveAt(layout, GroupIndex(layout, g))
        after == onDropItem(layout, g, 0, index, BlockGroup, NextGroup)
    IN /\ RemoveAt(after, GroupIndex(after, g)) = rest
       /\ GroupIndex(after, g) # 0
       /\ after[GroupIndex(after, g)] = layout[GroupIndex(layout, g)]
       /\ index <= Len(rest) => GroupIndex(after, g) = index + 1

\* C9's case: a group was dropped and the order of three groups changed
C9_Witness ==
  /\ last.h = "onDropItem" /\ last.x = BlockGroup /\ last.tag = "changed"
  /\ Len(layout) = MaxBlocks

\* C10: dropping a group on another group (groupBlockGroups) leaves the target
\* with its tabs followed by the source's tabs, in their orders, and the source
\* out of the layout; dropping it on itself changes nothing.
C10_GroupBlockGroupsAppends ==
  \A s \in LayoutGroupIds(layout), t \in LayoutGroupIds(layout) :
    LET after == onGroup(layout, s, 0, t, BlockGroup)
    IN IF s = t THEN after = layout
       ELSE /\ GroupTabIds(after, t) = GroupTabIds(layout, t) \o GroupTabIds(layout, s)
            /\ GroupIndex(after, s) = 0
            /\ GroupIdsOf(after) = GroupIdsOf(RemoveAt(layout, GroupIndex(layout, s)))
            /\ \A h \in LayoutGroupIds(layout) \ {s, t} :
                 GroupTabIds(after, h) = GroupTabIds(layout, h)

\* C10's case: a group of one tab was merged into a group of two
C10_Witness ==
  /\ last.h = "onGroup" /\ last.x = BlockGroup /\ last.tag = "changed"
  /\ Len(layout) = 1
  /\ Len(layout[1].tabs) = MaxBlocks

----------------------------------------------------------------------------
\* Two replicas. Both start from the same document, each runs one handler on
\* its own copy, and the replicated document (a Y.Array of groups, a Y.Array
\* of tabs in each group, a Y.Map of blocks) merges the two edits: an element
\* either replica deleted is deleted, an element either replica inserted is
\* inserted after the element it was inserted after. The handlers run here
\* delete and insert tabs and insert and delete groups; none re-inserts a
\* group, so a group is one element of the layout for as long as it is in it.

\* the elements of a that the other replica (whose sequence is b) did not delete
KeptOf(base, a, b) == SelectSeq(a, LAMBDA x : x \notin SeqRange(base) \/ x \in SeqRange(b))

\* the last position j < i of b whose element is in res, as its position in res;
\* 0 when there is none
RECURSIVE LeftOrigin(_, _, _)
LeftOrigin(res, b, i) ==
  IF i <= 1 THEN 0
  ELSE IF IndexOf(res, b[i - 1]) # 0 THEN IndexOf(res, b[i - 1])
  ELSE LeftOrigin(res, b, i - 1)

\* res with the elements b inserted (those not of base), each after its left
\* neighbour in b, from position i on
RECURSIVE InsertInserted(_, _, _, _)
InsertInserted(res, base, b, i) ==
  IF i > Len(b) THEN res
  ELSE IF b[i] \in SeqRange(base) THEN InsertInserted(res, base, b, i + 1)
  ELSE InsertInserted(InsertAt(res, LeftOrigin(res, b, i), b[i]), base, b, i + 1)

\* the merge of two edits a and b of a sequence base of identifiers
MergeIds(base, a, b) == InsertInserted(KeptOf(base, a, b), base, b, 1)

TabsOf(l, g) == IF GroupIndex(l, g) = 0 THEN <<>> ELSE l[GroupIndex(l, g)].tabs

\* the tab of block x as replica a has it, else as replica b has it
MergedTab(a, b, g, x) ==
  IF TabIndex(TabsOf(a, g), x) # 0
  THEN TabsOf(a, g)[TabIndex(TabsOf(a, g), x)]
  ELSE TabsOf(b, g)[TabIndex(TabsOf(b, g), x)]

MergeGroup(base, a, b, g) ==
  LET ids == MergeIds(GroupTabIds(base, g), GroupTabIds(a, g), GroupTabIds(b, g))
  IN [id |-> g, tabs |-> [i \in 1..Len(ids) |-> MergedTab(a, b, g, ids[i])]]

MergeLayout(base, a, b) ==
  LET ids == MergeIds(GroupIdsOf(base), GroupIdsOf(a), GroupIdsOf(b))
  IN [i \in 1..Len(ids) |-> MergeGroup(base, a, b, ids[i])]

MergeBlocks(base, a, b) ==
  LET keys == ((DOMAIN a) \cap ((DOMAIN b) \cup ((DOMAIN a) \ DOMAIN base)))
                \cup ((DOMAIN b) \ DOMAIN base)
  IN [k \in keys |-> IF k \in DOMAIN a THEN a[k] ELSE b[k]]

MergeDocs(base, a, b) ==
  [layout |-> MergeLayout(base.layout, a.layout, b.layout),
   blocks |-> MergeBlocks(base.blocks, a.blocks, b.blocks)]

Replicas == {"a", "b"}

\* the identifiers replica r creates: no other replica creates the same
ReplicaBlockSeq(r) == [i \in 1..MaxBlocks |-> (IF r = "a" THEN MaxBlocks ELSE 2 * MaxBlocks) + i]
ReplicaGroup(r) == 0 - (MaxGroups + (IF r = "a" THEN 1 ELSE 2))

\* both replicas are in sync with the document, and start editing offline
Fork ==
  /\ Idle
  /\ net.phase = "off"
  /\ Cardinality(DOMAIN blocks) = MaxBlocks
  /\ net' = [phase |-> "forked", base |-> Doc, a |-> Doc, b |-> Doc, acted |-> {},
             merged |-> Doc]
  /\ last' = Call("fork", "", "")
  /\ UNCHANGED <<layout, blocks, dashboards, removeBlockGroupDialog, removeBlockDialog, pending>>

\* replica r commits document d; replica a edits first (the order of the two
\* edits does not matter: each is on the replica's own copy)
ReplicaCommit(r, d) ==
  /\ net.phase = "forked"
  /\ r \notin net.acted
  /\ r = "b" => "a" \in net.acted
  /\ d # net[r]
  /\ net' = [net EXCEPT ![r] = d, !.acted = net.acted \cup {r}]
  /\ UNCHANGED <<layout, blocks, dashboards, removeBlockGroupDialog, removeBlockDialog,
                 pending, last>>

ReplicaOnGroup(r, g, b, targetId, type) ==
  /\ net.phase = "forked"
  /\ ReplicaCommit(r, [net[r] EXCEPT !.layout = onGroup(net[r].layout, g, b, targetId, type)])

ReplicaOnReorderTab(r, g, b, targetId, side) ==
  /\ net.phase = "forked"
  /\ ReplicaCommit(r, [net[r] EXCEPT !.layout = onReorderTab(net[r].layout, g, b, targetId, side)])

ReplicaOnDuplicateBlockGroup(r, g) ==
  /\ net.phase = "forked"
  /\ ReplicaCommit(r, onDuplicateBlockGroup(net[r], g, ReplicaBlockSeq(r), ReplicaGroup(r)))

\* the replicas exchange their updates
Merge ==
  /\ net.phase = "forked"
  /\ net.acted = Replicas
  /\ net' = [net EXCEPT !.phase = "merged", !.merged = MergeDocs(net.base, net.a, net.b)]
  /\ UNCHANGED <<layout, blocks, dashboards, removeBlockGroupDialog, removeBlockDialog,
                 pending, last>>

NextMerge ==
  \/ /\ net.phase = "off"
     /\ \E index \in Indexes : AddBlock("SQL", index)
  \/ /\ net.phase = "off"
     /\ \E g \in GroupIds, t \in GroupIds : Group(g, 0, t, BlockGroup)
  \/ Fork
  \/ \E r \in Replicas, g \in GroupIds, t \in GroupIds : ReplicaOnGroup(r, g, 0, t, BlockGroup)
  \/ \E r \in Replicas, g \in GroupIds, b \in BlockIds, t \in GroupIds :
       ReplicaOnGroup(r, g, b, t, Block)
  \/ \E r \in Replicas, g \in GroupIds, b \in BlockIds, t \in BlockIds, side \in Sides :
       ReplicaOnReorderTab(r, g, b, t, side)
  \/ \E r \in Replicas, g \in GroupIds : ReplicaOnDuplicateBlockGroup(r, g)
  \/ Merge

SpecMerge == Init /\ [][NextMerge]_vars

\* C4: after two replicas each applied one structural operation to the same
\* layout and their edits were merged, no block identifier is in two tab slots
\* of the merged layout.
C4_MergedNoDuplicateMembership ==
  net.phase = "merged" =>
    \A s, t \in Slots(net.merged.layout) :
      s # t => net.merged.layout[s[1]].tabs[s[2]].blockId
                 # net.merged.layout[t[1]].tabs[t[2]].blockId

----------------------------------------------------------------------------
\* Moving single tabs

\* the block of the tab of group g that holds the current marker, 0 when none
CurrentOf(l, g) == getCurrentTabId(l, g, FALSE)

\* s without its element x
Without(s, x) == RemoveAt(s, IndexOf(s, x))

\* every group but those of skip has the tabs it had
OthersKept(l, after, skip) ==
  \A h \in LayoutGroupIds(l) \ skip : GroupTabIds(after, h) = GroupTabIds(l, h)

\* C11: dropping a tab of one group on another group (groupBlocks) moves that
\* tab only into the target, where it becomes the current tab; the source group
\* leaves the layout exactly when that was its only tab; dropping a tab on its
\* own group changes nothing.
C11_GroupBlocksMovesOneTab ==
  \A sg \in LayoutGroupIds(layout), tg \in LayoutGroupIds(layout) :
    \A sb \in GroupBlockSet(layout, sg) :
      LET after == onGroup(layout, sg, sb, tg, Block)
      IN IF sg = tg THEN after = layout
         ELSE /\ sb \in GroupBlockSet(after, tg)
              /\ Without(GroupTabIds(after, tg), sb) = GroupTabIds(layout, tg)
              /\ CurrentOf(after, tg) = sb
              /\ (GroupIndex(after, sg) = 0) <=> (Len(GroupTabIds(layout, sg)) = 1)
              /\ GroupTabIds(after, sg) = Without(GroupTabIds(layout, sg), sb)
              /\ LayoutGroupIds(after) \cup {sg} = LayoutGroupIds(layout)
              /\ OthersKept(layout, after, {sg, tg})

\* C11's case: a tab was dropped on another group, which now has two tabs and
\* stands next to a group of one
C11_Witness ==
  /\ last.h = "onGroup" /\ last.x = Block /\ last.tag = "changed"
  /\ Len(layout) = 2
  /\ \A i \in 1..Len(layout) : Len(layout[i].tabs) <= 2

\* C12: dropping a tab of a group of two or more tabs on a dropzone (ungroupTab)
\* makes a new group of that tab alone at targetIndex of the layout; the source
\* group keeps its other tabs in their order, one of them current; the other
\* groups are as they were.
C12_UngroupTabMakesGroup ==
  \A g \in LayoutGroupIds(layout), index \in Indexes :
    \A b \in GroupBlockSet(layout, g) :
      (Len(GroupTabIds(layout, g)) >= 2 /\ NextGroup # 0) =>
        LET after == onDropItem(layout, g, b, index, Block, NextGroup)
            at == GroupIndexOfBlock(after, b)
        IN /\ Len(after) = Len(layout) + 1
           /\ at # 0
           /\ TabIds(after[at].tabs) = <<b>>
           /\ after[at].tabs[1].isCurrent
           /\ after[at].id \notin LayoutGroupIds(layout)
           /\ index <= Len(layout) => at = index + 1
           /\ GroupIdsOf(RemoveAt(after, at)) = GroupIdsOf(layout)
           /\ GroupTabIds(after, g) = Without(GroupTabIds(layout, g), b)
           /\ CurrentCount(after, GroupIndex(after, g)) = 1
           /\ OthersKept(layout, after, {g})

\* C12's case: a tab was pulled out of a group of three into a group of its own
C12_Witness ==
  /\ last.h = "onDropItem" /\ last.x = Block /\ last.tag = "ungrouped"
  /\ Len(layout) = 2
  /\ SomeGroupHasTabs(2)

\* the identifier of the group that holds a tab of block b, 0 when none does
GroupOfBlock(l, b) == IF GroupIndexOfBlock(l, b) = 0 THEN 0 ELSE l[GroupIndexOfBlock(l, b)].id

\* C13: dropping a tab on the left or right half of another tab (reorderTab)
\* takes the tab out of its group and puts it immediately before or after the
\* target tab in the target's group; inside one group the current tab stays the
\* current tab; a source group left with no tab leaves the layout.
C13_ReorderTabPlacesTab ==
  \A sg \in LayoutGroupIds(layout), tb \in LayoutBlockIds(layout), side \in Sides :
    \A b \in GroupBlockSet(layout, sg) \ {tb} :
      LET after == onReorderTab(layout, sg, b, tb, side)
          tg == GroupOfBlock(layout, tb)
          ids == GroupTabIds(after, tg)
      IN /\ IndexOf(ids, b) # 0 /\ IndexOf(ids, tb) # 0
         /\ IndexOf(ids, b) = IndexOf(ids, tb) + (IF side = "left" THEN 0 - 1 ELSE 1)
         /\ Without(ids, b) = Without(GroupTabIds(layout, tg), b)
         /\ sg = tg => CurrentOf(after, sg) = CurrentOf(layout, sg)
         /\ sg # tg => /\ (GroupIndex(after, sg) = 0) <=> (Len(GroupTabIds(layout, sg)) = 1)
                       /\ GroupTabIds(after, sg) = Without(GroupTabIds(layout, sg), b)
         /\ LayoutGroupIds(after) \cup {sg} = LayoutGroupIds(layout)
         /\ OthersKept(layout, after, {sg, tg})

\* C13's case: a tab was dropped on the right half of the current tab, and is
\* now the second of the two tabs of the only group, the first still current
C13_Witness ==
  /\ last.h = "onReorderTab" /\ last.x = "right"
  /\ Len(layout) = 1
  /\ Len(layout[1].tabs) = 2
  /\ layout[1].tabs[1].isCurrent

----------------------------------------------------------------------------
\* Drag gestures: while an item is dragged, react-dnd asks the drop targets
\* under the pointer whether the drop can happen (canDrop), any number of times
\* before the drop.

\* 4.3 canReorderTab(layout, sourceGroupId, blockId, targetBlockId, side): the
\* reorder is between existing tabs, of two different tabs, and the tab is not
\* already on that side of the target
canReorderTab(l, sg, b, tb, side) ==
  LET si == GroupIndex(l, sg)
      bi == IF si = 0 THEN 0 ELSE TabIndex(l[si].tabs, b)
      ti == GroupIndexOfBlock(l, tb)
  IN IF si = 0 \/ bi = 0 \/ ti = 0 \/ b = tb THEN FALSE
     ELSE IF ti # si THEN TRUE
     ELSE LET at == TabIndex(l[si].tabs, tb)
          IN IF side = "left" THEN bi # at - 1 ELSE bi # at + 1

\* onCheckCanReorderTab that takes the target tab for the dragged tab
onCheckCanReorderTab_TargetAsDragged(l, blockGroupId, blockId, targetId, side) ==
  canReorderTab(l, blockGroupId, targetId, blockId, side)

\* DraggableTabbedBlock.onCheckCanReorderTab(blockGroupId, blockId, targetId, side)
onCheckCanReorderTab(l, blockGroupId, blockId, targetId, side) ==
  canReorderTab(l, blockGroupId, blockId, targetId, side)

BoolStr(v) == IF v THEN "true" ELSE "false"

\* Dropzone canDrop that performs the drop it is asked about
CheckCanDrop_Drops(g, index, type) ==
  /\ Idle
  /\ NextGroup # 0
  /\ layout' = onDropItem(layout, g, 0, index, type, NextGroup)
  /\ last' = Call("onCheckCanDrop", <<g, index, type>>,
                  BoolStr(onCheckCanDrop(layout, g, index, type)))
  /\ UNCHANGED <<blocks, dashboards, removeBlockGroupDialog, removeBlockDialog, pending, net>>

\* Dropzone useDrop canDrop: onCheckCanDrop(item.blockGroupId, index, itemType)
CheckCanDrop(g, index, type) ==
  /\ Idle
  /\ last' = Call("onCheckCanDrop", <<g, index, type>>,
                  BoolStr(onCheckCanDrop(layout, g, index, type)))
  /\ UNCHANGED <<layout, blocks, dashboards, removeBlockGroupDialog, removeBlockDialog,
                 pending, net>>

\* Tab useDrop canDrop, of the tab of block targetId, for a dragged tab of block
\* b: onCheckCanReorderTab(tabRef.blockGroupId, item.blockId, tabRef.blockId, side)
CheckCanReorderTab(b, targetId, side) ==
  /\ Idle
  /\ GroupOfBlock(layout, targetId) # 0
  /\ last' = Call("onCheckCanReorderTab", <<GroupOfBlock(layout, targetId), b, targetId, side>>,
                  BoolStr(onCheckCanReorderTab(layout, GroupOfBlock(layout, targetId),
                                               b, targetId, side)))
  /\ UNCHANGED <<layout, blocks, dashboards, removeBlockGroupDialog, removeBlockDialog,
                 pending, net>>

NextDrag ==
  \/ \E index \in Indexes : AddBlock("SQL", index)
  \/ \E g \in GroupIds, t \in GroupIds : Group(g, 0, t, BlockGroup)
  \/ \E g \in GroupIds, index \in Indexes, type \in ElementType : CheckCanDrop(g, index, type)
  \/ \E b \in BlockIds, t \in BlockIds, side \in Sides : CheckCanReorderTab(b, t, side)
  \/ \E g \in GroupIds, index \in Indexes : DropItem(g, 0, index, BlockGroup)
  \/ \E g \in GroupIds, b \in BlockIds, index \in Indexes : DropItem(g, b, index, Block)
  \/ \E g \in GroupIds, b \in BlockIds, t \in BlockIds, side \in Sides : ReorderTab(g, b, t, side)

SpecDrag == Init /\ [][NextDrag]_vars

\* the answer the pre-check named by call c gives on layout l
AnswerOf(l, c) ==
  IF c.h = "onCheckCanDrop"
  THEN BoolStr(onCheckCanDrop(l, c.x[1], c.x[2], c.x[3]))
  ELSE BoolStr(onCheckCanReorderTab(l, c.x[1], c.x[2], c.x[3], c.x[4]))

TabOrder(l) == [i \in 1..Len(l) |-> <<l[i].id, TabIds(l[i].tabs)>>]

\* C15: canReorderTab, asked about a tab of the source group and a target tab
\* of the layout, answers false when the two tabs are the same and when the tab
\* already sits on the asked side of the target in the same group, that is
\* exactly when reorderTab would leave the order of the tabs as it is, and
\* true for every other pair of tabs.
C15_CanReorderTabMirrors ==
  \A sg \in LayoutGroupIds(layout), tb \in LayoutBlockIds(layout), side \in Sides :
    \A b \in GroupBlockSet(layout, sg) :
      LET can == onCheckCanReorderTab(layout, sg, b, tb, side)
          after == onReorderTab(layout, sg, b, tb, side)
      IN /\ can <=> (TabOrder(after) # TabOrder(layout))
         /\ b = tb => ~can

\* C15's case: a tab asked about a different tab of its own group said no: the
\* dragged tab is already on that side of it
C15_Witness ==
  /\ last.h = "onCheckCanReorderTab"
  /\ last.tag = "false"
  /\ last.x[2] # last.x[3]
  /\ GroupOfBlock(layout, last.x[2]) = last.x[1]

----------------------------------------------------------------------------
\* Duplicating a group and removing the duplicate

\* the block types that tell the payloads of two tabs apart
DuplicableTypes == {"SQL", "PYTHON"}

\* the identifiers (uuids) of a duplicate: in use nowhere while no duplicate is
\* in the layout
CopyBlockSeq == [i \in 1..MaxBlocks |-> MaxBlocks + i]
CopyGroup == 0 - (MaxGroups + 1)

\* V2Editor.onDuplicateBlockGroup(blockGroupId) while the layout holds no duplicate
DuplicateBlockGroupOnce(g) ==
  /\ Idle
  /\ CopyGroup \notin LayoutGroupIds(layout)
  /\ Commit(onDuplicateBlockGroup(Doc, g, CopyBlockSeq, CopyGroup), "onDuplicateBlockGroup", "copy")

NextDuplicate ==
  \/ \E type \in DuplicableTypes, index \in Indexes : AddBlock(type, index)
  \/ \E g \in GroupIds, t \in GroupIds : Group(g, 0, t, BlockGroup)
  \/ \E g \in GroupIds : DuplicateBlockGroupOnce(g)
  \/ \E g \in GroupIds \cup {CopyGroup} : RemoveBlockGroup(g)

SpecDuplicate == Init /\ [][NextDuplicate]_vars

\* C16: duplicating a group puts, immediately after it, a new group whose tabs
\* are copies of its blocks under fresh identifiers, with the same payloads in
\* the same order, and leaves everything else as it was; removing the new group
\* then gives back the Layout and the Block Store of before the duplication.
C16_DuplicateThenRemoveRestores ==
  \A g \in LayoutGroupIds(layout) :
    CopyGroup \notin LayoutGroupIds(layout) =>
      LET gi == GroupIndex(layout, g)
          n == Len(layout[gi].tabs)
          dup == onDuplicateBlockGroup(Doc, g, CopyBlockSeq, CopyGroup)
          copy == dup.layout[gi + 1]
          back == onRemoveBlockGroup(dup, dashboards, removeBlockGroupDialog, CopyGroup)
      IN /\ Len(dup.layout) = Len(layout) + 1
         /\ copy.id = CopyGroup
         /\ Len(copy.tabs) = n
         /\ \A i \in 1..n :
              /\ copy.tabs[i].blockId \notin DOMAIN blocks
              /\ copy.tabs[i].blockId \in DOMAIN dup.blocks
              /\ dup.blocks[copy.tabs[i].blockId] = blocks[layout[gi].tabs[i].blockId]
              /\ \A j \in 1..n : i # j => copy.tabs[i].blockId # copy.tabs[j].blockId
         /\ RemoveAt(dup.layout, gi + 1) = layout
         /\ \A b \in DOMAIN blocks : b \in DOMAIN dup.blocks /\ dup.blocks[b] = blocks[b]
         /\ DOMAIN dup.blocks = (DOMAIN blocks) \cup {copy.tabs[i].blockId : i \in 1..n}
         /\ back.result.tag = "success"
         /\ back.doc = Doc

\* C16's case: a group of two tabs of different payloads was duplicated
C16_Witness ==
  /\ last.h = "onDuplicateBlockGroup"
  /\ GroupIndex(layout, CopyGroup) >= 2
  /\ LET copy == layout[GroupIndex(layout, CopyGroup)]
     IN /\ Len(copy.tabs) = 2
        /\ blocks[copy.tabs[1].blockId] # blocks[copy.tabs[2].blockId]

----------------------------------------------------------------------------
\* What a row displays

\* DraggableTabbedBlock.tabRefs: the tabs of the group, without the tabs hidden
\* in the published view when the view is the published one
tabRefs(l, id, isApp) ==
  SelectSeq(TabsOf(l, id), LAMBDA t : isApp => ~t.isHiddenInPublished)

\* DraggableTabbedBlock.nodes: every tab of tabRefs is rendered, and collapsed
\* (h-0 overflow-hidden) unless it is the current one or the view is the PDF
DisplayedTabs(l, id, isApp, isPDF) ==
  {t.blockId : t \in {u \in SeqRange(tabRefs(l, id, isApp)) :
                        u.blockId = currentBlockId(l, id, isApp) \/ isPDF}}

\* V2Editor.domBlocks: the group at position i gets a row unless it has no id
\* or none of its tabs is left by the filter of the view
rowRendered(l, i, isApp) ==
  l[i].id # 0 /\ Len(tabRefs(l, l[i].id, isApp)) > 0

\* the first tab of tabs that is not hidden in the published view
FirstShown(tabs) ==
  tabs[CHOOSE i \in 1..Len(tabs) :
         /\ ~tabs[i].isHiddenInPublished
         /\ \A j \in 1..(i - 1) : tabs[j].isHiddenInPublished]

\* C17: for the published view getCurrentTabId gives the first tab of the group
\* that is not hidden in it, whichever tab holds the marker; for the editing
\* view it gives the tab that holds the marker; and the tab a row displays in
\* the published view is that first shown tab, never a hidden one.
C17_PublishedViewShowsFirstShownTab ==
  \A i \in 1..Len(layout) :
    LET g == layout[i].id
        tabs == layout[i].tabs
        someShown == \E j \in 1..Len(tabs) : ~tabs[j].isHiddenInPublished
    IN /\ someShown => currentBlockId(layout, g, TRUE) = FirstShown(tabs).blockId
       /\ \E j \in 1..Len(tabs) :
            tabs[j].isCurrent /\ currentBlockId(layout, g, FALSE) = tabs[j].blockId
       /\ \A isPDF \in BOOLEAN : \A b \in DisplayedTabs(layout, g, TRUE, isPDF) :
            ~tabs[TabIndex(tabs, b)].isHiddenInPublished
       /\ someShown <=> rowRendered(layout, i, TRUE)
       /\ someShown => DisplayedTabs(layout, g, TRUE, FALSE) = {FirstShown(tabs).blockId}

\* C17's case: the tab that holds the marker was hidden, next to a tab that is not
C17_Witness ==
  /\ last.h = "onToggleIsBlockHiddenInPublished"
  /\ \E i \in 1..Len(layout) : \E j, k \in 1..Len(layout[i].tabs) :
       /\ layout[i].tabs[j].isCurrent /\ layout[i].tabs[j].isHiddenInPublished
       /\ ~layout[i].tabs[k].isHiddenInPublished

----------------------------------------------------------------------------
\* Identifiers that are not in the layout

\* a removal that found nothing to remove: no error, nothing changed
NothingRemoved(r, dialog) ==
  r.doc = Doc /\ r.result.tag = "success" /\ r.dialog = dialog

\* every handler that is given group g, which is not in the layout, changes nothing
AbsentGroupIsNoOp(g) ==
  /\ \A position \in Positions, b \in BlockIds :
       onAddGroupedBlock(Doc, "SQL", g, b, position, CopyBlockSeq[1]) = Doc
  /\ \A b \in BlockIds \cup {0}, index \in Indexes, type \in ElementType :
       onDropItem(layout, g, b, index, type, CopyGroup) = layout
  /\ \A b \in BlockIds \cup {0}, t \in GroupIds, type \in ElementType :
       /\ onGroup(layout, g, b, t, type) = layout
       /\ onGroup(layout, t, b, g, type) = layout
  /\ \A b \in BlockIds, tb \in BlockIds, side \in Sides :
       onReorderTab(layout, g, b, tb, side) = layout
  /\ \A b \in BlockIds :
       /\ onSwitchActiveTab(layout, g, b) = layout
       /\ onToggleIsBlockHiddenInPublished(layout, g, b) = layout
       /\ onDuplicateBlock(Doc, g, b, CopyBlockSeq[1]) = Doc
       /\ NothingRemoved(onRemoveBlock(Doc, dashboards, removeBlockDialog, g, b),
                         removeBlockDialog)
  /\ onHideAllTabs(layout, g) = layout
  /\ onDuplicateBlockGroup(Doc, g, CopyBlockSeq, CopyGroup) = Doc
  /\ NothingRemoved(onRemoveBlockGroup(Doc, dashboards, removeBlockGroupDialog, g),
                    removeBlockGroupDialog)
  /\ NothingRemoved(onDeleteCurrentTab(Doc, dashboards, removeBlockDialog, g, FALSE),
                    removeBlockDialog)

\* every handler that is given group g of the layout and block b, which is not
\* a tab of g, changes nothing
AbsentBlockIsNoOp(g, b) ==
  /\ \A position \in Positions :
       onAddGroupedBlock(Doc, "SQL", g, b, position, CopyBlockSeq[1]) = Doc
  /\ \A index \in Indexes : onDropItem(layout, g, b, index, Block, CopyGroup) = layout
  /\ \A t \in GroupIds : onGroup(layout, g, b, t, Block) = layout
  /\ \A tb \in BlockIds, side \in Sides : onReorderTab(layout, g, b, tb, side) = layout
  /\ onSwitchActiveTab(layout, g, b) = layout
  /\ onToggleIsBlockHiddenInPublished(layout, g, b) = layout
  /\ onDuplicateBlock(Doc, g, b, CopyBlockSeq[1]) = Doc
  /\ NothingRemoved(onRemoveBlock(Doc, dashboards, removeBlockDialog, g, b), removeBlockDialog)

\* C18: a handler called with a group identifier that is not in the layout, or
\* with a block identifier that is not a tab of the group it names (the anchor
\* of addGroupedBlock included), or with a target that is not in the layout,
\* raises no error and leaves the Layout and the Block Store as they were.
C18_UnknownIdentifiersAreNoOps ==
  /\ \A g \in GroupIds \ LayoutGroupIds(layout) : AbsentGroupIsNoOp(g)
  /\ \A g \in LayoutGroupIds(layout) : \A b \in BlockIds \ GroupBlockSet(layout, g) :
       AbsentBlockIsNoOp(g, b)
  /\ \A g \in LayoutGroupIds(layout) : \A b \in GroupBlockSet(layout, g) :
       \A tb \in BlockIds \ LayoutBlockIds(layout), side \in Sides :
         onReorderTab(layout, g, b, tb, side) = layout

\* C18's case: a group was removed with its blocks, next to two groups that
\* keep theirs, and its identifiers are now unknown
C18_Witness ==
  /\ last.h = "onRemoveBlockGroup" /\ last.x = "changed"
  /\ Len(layout) >= 2

----------------------------------------------------------------------------
\* Where the current marker goes

\* the block the marker of group g falls to when its current tab leaves: the
\* tab immediately before it, or the second tab (the new first) when it is the first
FallbackOf(l, g) ==
  LET ids == GroupTabIds(l, g)
      i == IndexOf(ids, CurrentOf(l, g))
  IN IF i > 1 THEN ids[i - 1] ELSE ids[2]

\* C19: when the current tab of a group of two or more tabs is removed (deleted,
\* or moved to another group or to a group of its own), the other tabs stay in
\* their order and the marker goes to the tab that was immediately before the
\* removed one, or to the new first tab when the removed one was the first.
C19_MarkerFallsToPreviousTab ==
  \A g \in LayoutGroupIds(layout) :
    Len(GroupTabIds(layout, g)) >= 2 =>
      LET b == CurrentOf(layout, g)
          rest == Without(GroupTabIds(layout, g), b)
          Fell(after) == GroupTabIds(after, g) = rest /\ CurrentOf(after, g) = FallbackOf(layout, g)
      IN /\ b \in GroupBlockSet(layout, g)
         /\ dashboards = {} =>
              /\ Fell(onDeleteCurrentTab(Doc, dashboards, removeBlockDialog, g, FALSE).doc.layout)
              /\ Fell(onRemoveBlock(Doc, dashboards, removeBlockDialog, g, b).doc.layout)
         /\ \A t \in LayoutGroupIds(layout) \ {g} : Fell(onGroup(layout, g, b, t, Block))
         /\ \A index \in Indexes : Fell(onDropItem(layout, g, b, index, Block, CopyGroup))
         /\ \A tb \in LayoutBlockIds(layout) \ GroupBlockSet(layout, g), side \in Sides :
              Fell(onReorderTab(layout, g, b, tb, side))

\* C19's case: the current tab, the last of three, was deleted and the marker
\* is on the tab that was before it
C19_Witness ==
  /\ last.h = "onDeleteCurrentTab" /\ last.x = "changed"
  /\ Len(layout) = 1
  /\ Len(layout[1].tabs) = 2
  /\ layout[1].tabs[2].isCurrent

----------------------------------------------------------------------------
\* The tab of a single-tab group dropped on a dropzone

----------------------------------------------------------------------------
\* Dropping a group on the dropzones of the rows. V2EditorRow renders the row
\* of layout.get(i) with a Dropzone of index i + 1 below it, and the first row
\* with a Dropzone of index 0 above it as well.

\* the indexes of the dropzones rendered for layout l
DropzoneIndexes(l) == 0..Len(l)

\* the group of the row right above the dropzone of that index, 0 for the
\* dropzone above the first row
RowAbove(l, index) == IF index = 0 THEN 0 ELSE l[index].id

\* Dropzone useDrop drop, of a dragged group: onDropItem(item.blockGroupId,
\* item.blockId, index, BlockGroup), which react-dnd calls only on a target
\* whose canDrop said yes. `last` keeps the dragged group and the row above.
DropGroupOnDropzone(g, index) ==
  /\ Idle
  /\ index \in DropzoneIndexes(layout)
  /\ onCheckCanDrop(layout, g, index, BlockGroup)
  /\ layout' = onDropItem(layout, g, 0, index, BlockGroup, 0)
  /\ last' = Call("Dropzone.drop", <<g, RowAbove(layout, index)>>, "")
  /\ UNCHANGED <<blocks, dashboards, removeBlockGroupDialog, removeBlockDialog, pending, net>>

NextDropzone ==
  \/ \E index \in Indexes : AddBlock("SQL", index)
  \/ \E g \in GroupIds, t \in GroupIds : Group(g, 0, t, BlockGroup)
  \/ \E g \in GroupIds, index \in Indexes, type \in ElementType : CheckCanDrop(g, index, type)
  \/ \E g \in GroupIds, index \in Indexes : DropGroupOnDropzone(g, index)

SpecDropzone == Init /\ [][NextDropzone]_vars

\* C21: a group dropped on the dropzone right below a row is then right after
\* the group of that row, whether it came from above or from below the row,
\* and a group dropped on the dropzone above the first row is then first; and
\* checkCanDropBlockGroup says no on exactly the dropzones where the drop
\* would leave the order of the layout as it is.
C21_DropBelowRowLandsAfterRow ==
  /\ (last.h = "Dropzone.drop" /\ last.x[2] # last.x[1]) =>
       LET ids == GroupIdsOf(layout)
           at == IndexOf(ids, last.x[1])
       IN IF last.x[2] = 0 THEN at = 1 ELSE at = IndexOf(ids, last.x[2]) + 1
  /\ \A g \in LayoutGroupIds(layout), index \in DropzoneIndexes(layout) :
       checkCanDropBlockGroup(layout, g, index)
         <=> onDropItem(layout, g, 0, index, BlockGroup, 0) # layout

----------------------------------------------------------------------------
\* A tab dragged onto another tab. The dragged item is made by the Tab's
\* useDrag, the target Tab's useDrop answers canDrop while the item is over
\* it, and its drop runs when the item is released there after canDrop said
\* yes.

\* Tab useDrag item: {blockGroupId: tabRef.blockGroupId, blockId: tabRef.blockId}
\* of the dragged tab, with the target tab and the side of the pointer: the
\* arguments drop gives onReorderTab
DropArguments(l, b, targetId, side) == <<GroupOfBlock(l, b), b, targetId, side>>

\* the arguments canDrop of the Tab of targetId gives onCheckCanReorderTab:
\* (props.tabRef.blockGroupId, item.blockId, props.tabRef.blockId, side)
CanDropArguments(l, b, targetId, side) == <<GroupOfBlock(l, targetId), b, targetId, side>>

\* Tab isDraggable: hasMultipleTabs of the row of the tab, outside the app view
isDraggable(l, b) ==
  /\ GroupOfBlock(l, b) # 0
  /\ Len(GroupTabIds(l, GroupOfBlock(l, b))) > 1

\* Tab useDrop canDrop, the tab of block b held over the tab of block targetId
TabCanDrop(b, targetId, side) ==
  /\ Idle
  /\ isDraggable(layout, b)
  /\ GroupOfBlock(layout, targetId) # 0
  /\ LET a == CanDropArguments(layout, b, targetId, side)
     IN last' = Call("Tab.canDrop",
                     [checked |-> a, item |-> DropArguments(layout, b, targetId, side)],
                     BoolStr(onCheckCanReorderTab(layout, a[1], a[2], a[3], a[4])))
  /\ UNCHANGED <<layout, blocks, dashboards, removeBlockGroupDialog, removeBlockDialog,
                 pending, net>>

\* Tab useDrop drop, the item released where canDrop last said yes:
\* onReorderTab(item.blockGroupId, item.blockId, props.tabRef.blockId, side)
TabDrop ==
  /\ Idle
  /\ last.h = "Tab.canDrop"
  /\ last.tag = "true"
  /\ LET a == last.x.item
     IN layout' = onReorderTab(layout, a[1], a[2], a[3], a[4])
  /\ last' = Call("Tab.drop", last.x, last.tag)
  /\ UNCHANGED <<blocks, dashboards, removeBlockGroupDialog, removeBlockDialog, pending, net>>

NextTabDrop ==
  \/ \E index \in Indexes : AddBlock("SQL", index)
  \/ \E g \in GroupIds, b \in BlockIds, position \in Positions :
       AddGroupedBlock("SQL", g, b, position)
  \/ \E b \in BlockIds, t \in BlockIds, side \in Sides : TabCanDrop(b, t, side)
  \/ TabDrop

SpecTabDrop == Init /\ [][NextTabDrop]_vars

====
